---------------------------- MODULE Spec2Model ----------------------------
(***************************************************************************)
(* A model of illume.py (Porto taxi-trip explorer): the waypoint parser,   *)
(* the planar geometry primitives and the three drivers illume, summarize  *)
(* and prepare that read a trip file line by line.                         *)
(*                                                                         *)
(* Representation.                                                         *)
(*  - A text is a sequence of one-character strings.                       *)
(*  - A coordinate is an integer number of ticks, one tick = 0.0001 degree *)
(*    (about 11.12 m of latitude).  float() of a decimal literal keeps its *)
(*    first four decimals.  The literal "inf" parses to the value Inf.     *)
(*  - A distance is a whole number of metres (rounded down), an angle a    *)
(*    whole number of degrees.                                             *)
(*  - A waypoint is the tuple <<longitude, latitude, distance, heading>>,  *)
(*    the code's 4-tuple with fields p[0]..p[3] at positions 1..4.         *)
(***************************************************************************)
EXTENDS Integers, Sequences, FiniteSets, TLC


VARIABLES
    text,       \* parser run: the text handed to parseWaypoints
    items,      \* parser run: what the text was written from (the test's own record)
    result,     \* parser run: what parseWaypoints returned (or NotYet)
    geo,        \* last direct call of geodist/geodir: arguments and results
    driver,     \* which function runs: "illume", "summarize", "prepare" ("none": parser run)
    hasHead,    \* parameter hasHead
    limit,      \* parameter limit
    sample,     \* parameter sample (prepare: after sample = int(max(1, sample)))
    start,      \* parameter start (illume)
    pc,         \* "loop": in the for loop; "done": returned; "raised": left by an exception
    err,        \* the exception that left the function, or ""
    labels,     \* local labels
    count,      \* local count
    consumed,   \* the data lines the csv reader has delivered so far
    bound,      \* whether the locals waypoints, drivedist, tripdist are bound yet
    waypoints,  \* local waypoints
    drivedist,  \* local drivedist, metres
    tripdist,   \* local tripdist, metres
    triptime,   \* local triptime, hundredths of a minute
    excuses,    \* prepare's five counters, excuses[0..4] at positions 1..5
    rows,       \* the data rows written (illume: the metrics printed), each with
                \* the index in consumed of the line it was written for
    diags       \* number of "Cannot parse trip" lines printed

pvars == <<text, items, result, geo>>

params == <<driver, hasHead, limit, sample, start>>

locals == <<bound, waypoints, drivedist, tripdist, triptime>>

dvars == <<params, pc, err, labels, count, consumed, locals, excuses, rows, diags>>

vars == <<pvars, dvars>>

---------------------------------------------------------------------------
(* Python string primitives, on sequences of characters.                   *)

\* str.lstrip(c): drop every leading occurrence of the character c.
RECURSIVE LStrip(_, _)
LStrip(s, c) ==
    IF s # <<>> /\ Head(s) = c THEN LStrip(Tail(s), c) ELSE s

\* str.rstrip(c): drop every trailing occurrence of the character c.
RECURSIVE RStrip(_, _)
RStrip(s, c) ==
    IF s # <<>> /\ s[Len(s)] = c THEN RStrip(SubSeq(s, 1, Len(s) - 1), c) ELSE s

\* Whether sep occurs in s at position i.
MatchAt(s, sep, i) ==
    /\ i + Len(sep) - 1 <= Len(s)
    /\ \A k \in 1..Len(sep) : s[i + k - 1] = sep[k]

\* str.find(sep) from position i, 1-based; 0 when sep does not occur.
RECURSIVE FindFrom(_, _, _)
FindFrom(s, sep, i) ==
    IF i + Len(sep) - 1 > Len(s) THEN 0
    ELSE IF MatchAt(s, sep, i) THEN i
    ELSE FindFrom(s, sep, i + 1)

\* str.split(sep): the pieces between the occurrences of sep, left to right;
\* a text without sep is one piece, the empty text one empty piece.
\* SplitAt continues from p, the first place of sep in s (0: none).
RECURSIVE SplitAt(_, _, _)
SplitAt(s, sep, p) ==
    IF p = 0 THEN <<s>>
    ELSE <<SubSeq(s, 1, p - 1)>>
         \o SplitAt(SubSeq(s, p + Len(sep), Len(s)), sep,
                    FindFrom(SubSeq(s, p + Len(sep), Len(s)), sep, 1))

Split(s, sep) == SplitAt(s, sep, FindFrom(s, sep, 1))

\* str.partition(sep): <<before, sep, after>> at the first sep, or <<s, "", "">>.
PartitionAt(s, sep, p) ==
    IF p = 0 THEN <<s, <<>>, <<>>>>
    ELSE <<SubSeq(s, 1, p - 1), sep, SubSeq(s, p + Len(sep), Len(s))>>

Partition(s, sep) == PartitionAt(s, sep, FindFrom(s, sep, 1))

---------------------------------------------------------------------------
(* float(): decimal literals and "inf", in ticks of 0.0001 degree.         *)

DigitChars == <<"0", "1", "2", "3", "4", "5", "6", "7", "8", "9">>

IsDigit(c) == \E d \in 1..10 : DigitChars[d] = c

DigitVal(c) == (CHOOSE d \in 1..10 : DigitChars[d] = c) - 1

\* The value float() gives for "inf"; larger than every finite coordinate.
Inf == 2000000000

IsInf(v) == v >= Inf \/ v <= -Inf

RECURSIVE DigitsVal(_)
DigitsVal(s) ==
    IF s = <<>> THEN 0
    ELSE DigitsVal(SubSeq(s, 1, Len(s) - 1)) * 10 + DigitVal(s[Len(s)])

\* The first four decimals of a fraction, as ticks.
FracTicks(s) ==
    DigitsVal([k \in 1..4 |-> IF k <= Len(s) THEN s[k] ELSE "0"])

\* [ok |-> whether the text is a float literal, val |-> its value in ticks],
\* for the integer part ip and the fraction fp of a literal without sign.
DecimalOf(ip, fp) ==
    IF /\ Len(ip) + Len(fp) >= 1
       /\ \A k \in 1..Len(ip) : IsDigit(ip[k])
       /\ \A k \in 1..Len(fp) : IsDigit(fp[k])
    THEN [ok |-> TRUE, val |-> DigitsVal(ip) * 10000 + FracTicks(fp)]
    ELSE [ok |-> FALSE, val |-> 0]

\* A literal without sign, p the place of its first "." (0: none).
SplitAtPoint(body, p) ==
    IF p = 0 THEN DecimalOf(body, <<>>)
    ELSE DecimalOf(SubSeq(body, 1, p - 1), SubSeq(body, p + 1, Len(body)))

Unsigned(body) ==
    IF body = <<"i", "n", "f">> THEN [ok |-> TRUE, val |-> Inf]
    ELSE SplitAtPoint(body, FindFrom(body, <<".">>, 1))

Negated(f) == [ok |-> f.ok, val |-> -f.val]

\* float(s): [ok |-> whether s is a float literal, val |-> its value].
\* Literals of the model: [-] digits [. digits], [-] . digits, [-] inf.
ParseFloat(s) ==
    IF s # <<>> /\ Head(s) = "-" THEN Negated(Unsigned(Tail(s))) ELSE Unsigned(s)

---------------------------------------------------------------------------
(* Geometry primitives.                                                    *)

Abs(x) == IF x < 0 THEN -x ELSE x

Max2(a, b) == IF a >= b THEN a ELSE b

\* math.sqrt, rounded down: the largest r with r*r <= n, found by bisection.
RECURSIVE SqrtBetween(_, _, _)
SqrtBetween(n, lo, hi) ==
    IF lo >= hi THEN lo
    ELSE LET mid == (lo + hi + 1) \div 2 IN
         IF mid * mid <= n THEN SqrtBetween(n, mid, hi)
         ELSE SqrtBetween(n, lo, mid - 1)

ISqrt(n) == SqrtBetween(n, 0, 46340)

\* latFactor = cos(((lat1+lat2)/2) * (pi/180)), in thousandths, from the sum of
\* the two latitudes in ticks.  Bhaskara's rational approximation
\* cos(x) = 1 - 5x^2/(32400 + x^2), x in degrees, taken on half degrees;
\* within 0.2 % for |x| <= 90.
LatFactor(latSum) ==
    LET h == Abs(latSum) \div 10000 IN
    1000 - (5000 * h * h) \div (129600 + h * h)

\* math.cos raises ValueError ("math domain error") on an infinite argument.
CosRaises(lat1, lat2) == IsInf(lat1) \/ IsInf(lat2)

\* lonDelta and latDelta in thousandths of a tick.
LonDelta(lon1, lat1, lon2, lat2) == (lon1 - lon2) * LatFactor(lat1 + lat2)

LatDelta(lat1, lat2) == (lat1 - lat2) * 1000

\* sqrt(x*x + y*y) rounded down, for 0 <= x, y, scaled down by k first: large
\* arguments are scaled, as floating point keeps relative, not absolute,
\* precision.
HypotScaled(x, y, k) ==
    ISqrt((x \div k) * (x \div k) + (y \div k) * (y \div k)) * k

Hypot(x, y) == HypotScaled(Abs(x), Abs(y), Max2(Abs(x), Abs(y)) \div 30000 + 1)

\* Thousandths of a tick to metres: radius*(pi/180) = 111195 m per degree
\* = 1112 cm per tick.
Metres(r) == ((r \div 1000) * 1112 + ((r % 1000) * 1112) \div 1000) \div 100

\* geodist: metres between two points.
geodist(lon1, lat1, lon2, lat2) ==
    Metres(Hypot(LonDelta(lon1, lat1, lon2, lat2), LatDelta(lat1, lat2)))

\* tan(d degrees) in thousandths, d = 1..89.
TanMilli ==
    << 17, 35, 52, 70, 87, 105, 123, 141, 158, 176, 194, 213, 231, 249, 268,
       287, 306, 325, 344, 364, 384, 404, 424, 445, 466, 488, 510, 532, 554,
       577, 601, 625, 649, 675, 700, 727, 754, 781, 810, 839, 869, 900, 933,
       966, 1000, 1036, 1072, 1111, 1150, 1192, 1235, 1280, 1327, 1376, 1428,
       1483, 1540, 1600, 1664, 1732, 1804, 1881, 1963, 2050, 2145, 2246,
       2356, 2475, 2605, 2747, 2904, 3078, 3271, 3487, 3732, 4011, 4331,
       4705, 5145, 5671, 6314, 7115, 8144, 9514, 11430, 14301, 19081, 28636,
       57290 >>

\* atan(a/b) in whole degrees, rounded down, for 0 < a, b.
AtanDeg(a, b, k) ==
    Cardinality({d \in 1..89 : (a \div k) * 1000 >= (b \div k) * TanMilli[d]})

\* math.atan2(y, x) * 180/pi in whole degrees (rounded towards the x axis);
\* exact on the axes.  base is atan(|y|/|x|).
Quadrant(y, x, base) ==
    IF y = 0 THEN (IF x < 0 THEN 180 ELSE 0)
    ELSE IF x = 0 THEN (IF y > 0 THEN 90 ELSE -90)
    ELSE IF x > 0 THEN (IF y > 0 THEN base ELSE -base)
    ELSE (IF y > 0 THEN 180 - base ELSE base - 180)

Atan2Deg(y, x) ==
    Quadrant(y, x, AtanDeg(Abs(y), Abs(x), Max2(Abs(x), Abs(y)) \div 30000 + 1))

\* geodir: direction in degrees from point 2 to point 1.
geodir(lon1, lat1, lon2, lat2) ==
    Atan2Deg(LatDelta(lat1, lat2), LonDelta(lon1, lat1, lon2, lat2))

---------------------------------------------------------------------------
(* parseWaypoints.                                                         *)

\* The separator between two coordinate pairs.
PairSep == <<"]", ",", "[">>

\* The split list, or no fragment at all when it is one empty fragment.
DropEmpty(stamps) ==
    IF Len(stamps) = 1 /\ stamps[1] = <<>> THEN <<>> ELSE stamps

\* The fragments with the closing brackets left on the text.
Stamps_NoRStrip(txt) == DropEmpty(Split(LStrip(txt, "["), PairSep))

\* stamps: the fragments of the text, one per coordinate pair.
Stamps(txt) == DropEmpty(Split(RStrip(LStrip(txt, "["), "]"), PairSep))

\* The test with "and" for "or".
Complains_Both(longi, lati) == longi # <<>> /\ lati # <<>>

\* Whether the except branch prints "Cannot parse trip" for a fragment that
\* failed to parse (it prints at most once per call: see ParseStamp's happy).
Complains(longi, lati) == longi # <<>> \/ lati # <<>>

\* Whether the previous position counts as known.
HasLast(lastLongi, lastLati) == lastLongi # 0 /\ lastLati # 0

\* The except branch: print the diagnostic if this fragment calls for it and
\* none was printed in this call yet.  st is the loop's state: lastLongi,
\* lastLati, waypoints, happy, printed (the number of diagnostics printed so
\* far), seen (the number of fragments the loop has taken up) and raised (the
\* exception that ended the call, or "").
Except(st, longi, lati) ==
    IF Complains(longi, lati) /\ st.happy
    THEN [st EXCEPT !.happy = FALSE, !.printed = @ + 1]
    ELSE st

\* The rest of the loop body, once longi and lati are numbers.
AddWaypoint(st, longi, lati) ==
    IF HasLast(st.lastLongi, st.lastLati)
    THEN IF CosRaises(lati, st.lastLati)
         THEN [st EXCEPT !.raised = "ValueError: math domain error"]
         ELSE [st EXCEPT
                 !.waypoints = Append(@,
                     << longi, lati,
                        geodist(longi, lati, st.lastLongi, st.lastLati),
                        geodir(longi, lati, st.lastLongi, st.lastLati) >>),
                 !.lastLongi = longi, !.lastLati = lati]
    ELSE [st EXCEPT !.waypoints = Append(@, <<longi, lati, 0, 0>>),
                    !.lastLongi = longi, !.lastLati = lati]

\* try: longi, lati = float(longi), float(lati)  except: ... longi, lati = 0, 0
TryFloats(st, longi, lati, flon, flat) ==
    IF flon.ok /\ flat.ok THEN AddWaypoint(st, flon.val, flat.val)
    ELSE AddWaypoint(Except(st, longi, lati), 0, 0)

\* (longi, junk, lati) = stamp.partition(',')
Partitioned(st, parts) ==
    TryFloats(st, parts[1], parts[3], ParseFloat(parts[1]), ParseFloat(parts[3]))

\* One turn of the loop over the fragments (seen counts the turns begun).
ParseStamp(st, stamp) ==
    Partitioned([st EXCEPT !.seen = @ + 1], Partition(stamp, <<",">>))

RECURSIVE ParseLoop(_, _, _)
ParseLoop(stamps, i, st) ==
    IF i > Len(stamps) \/ st.raised # "" THEN st
    ELSE ParseLoop(stamps, i + 1, ParseStamp(st, stamps[i]))

\* What the call leaves behind, from the loop's last state.
Returned(st) ==
    [waypoints |-> IF st.raised = "" THEN st.waypoints ELSE <<>>,
     printed |-> st.printed, seen |-> st.seen, raised |-> st.raised]

\* parseWaypoints(text): [waypoints |-> the list returned, printed |-> the
\* number of "Cannot parse trip" lines printed, seen |-> the number of
\* fragments taken up, raised |-> "" on a normal return, else the exception
\* that left the function].
parseWaypoints(txt) ==
    Returned(ParseLoop(Stamps(txt), 1,
                 [lastLongi |-> 0, lastLati |-> 0, waypoints |-> <<>>,
                  happy |-> TRUE, printed |-> 0, seen |-> 0, raised |-> ""]))

---------------------------------------------------------------------------
(* Texts in the file's format, [[lon0,lat0],[lon1,lat1],...].              *)

\* Most fragments in a generated text of the parser runs.
MaxFrags == 3

RECURSIVE Digits(_)
Digits(n) ==
    IF n < 10 THEN <<DigitChars[n + 1]>>
    ELSE Digits(n \div 10) \o <<DigitChars[(n % 10) + 1]>>

\* Four decimals.
Frac4(f) ==
    << DigitChars[(f \div 1000) + 1], DigitChars[((f \div 100) % 10) + 1],
       DigitChars[((f \div 10) % 10) + 1], DigitChars[(f % 10) + 1] >>

\* A coordinate written as a decimal literal with four decimals: 3 is 0.0003.
Lit(v) ==
    (IF v < 0 THEN <<"-">> ELSE <<>>) \o Digits(Abs(v) \div 10000) \o <<".">>
    \o Frac4(Abs(v) % 10000)

PairFrag(lon, lat) == Lit(lon) \o <<",">> \o Lit(lat)

RECURSIVE JoinFrags(_)
JoinFrags(frags) ==
    IF frags = <<>> THEN <<>>
    ELSE IF Len(frags) = 1 THEN frags[1]
    ELSE frags[1] \o PairSep \o JoinFrags(Tail(frags))

\* The text of a list of fragments; the empty list is written [].
Encode(frags) ==
    IF frags = <<>> THEN <<"[", "]">>
    ELSE <<"[", "[">> \o JoinFrags(frags) \o <<"]", "]">>

\* Positions used in the parser and geometry runs: round the origin, on the
\* zero meridian, on the equator, and in Porto.
PointSet ==
    { <<0, 0>>, <<0, 4>>, <<3, 0>>, <<3, 4>>, <<6, 4>>, <<3, 8>>,
      <<-86100, 411500>> }

\* Fragments that are no pair of finite numbers, each with what the test
\* knows of it: whether float() fails on it, and whether the text before and
\* after its first comma is empty.
BadItems ==
    { [frag |-> <<"x", ",", "0", ".", "0", "0", "0", "4">>,     \* x,0.0004
       fails |-> TRUE, lonEmpty |-> FALSE, latEmpty |-> FALSE],
      [frag |-> <<"0", ".", "0", "0", "0", "3", ",">>,          \* 0.0003,
       fails |-> TRUE, lonEmpty |-> FALSE, latEmpty |-> TRUE],
      [frag |-> <<",", "0", ".", "0", "0", "0", "4">>,          \* ,0.0004
       fails |-> TRUE, lonEmpty |-> TRUE, latEmpty |-> FALSE],
      [frag |-> <<"0", ".", "0", "0", "0", "3">>,               \* 0.0003
       fails |-> TRUE, lonEmpty |-> FALSE, latEmpty |-> TRUE],
      [frag |-> <<>>,                                           \* (empty)
       fails |-> TRUE, lonEmpty |-> TRUE, latEmpty |-> TRUE],
      [frag |-> <<",">>,                                        \* ,
       fails |-> TRUE, lonEmpty |-> TRUE, latEmpty |-> TRUE],
      [frag |-> <<"0", ".", "0", "0", "0", "3", ",", "i", "n", "f">>,  \* 0.0003,inf
       fails |-> FALSE, lonEmpty |-> FALSE, latEmpty |-> FALSE] }

\* The fragment 0.0003,inf: a pair of numbers, the second one infinite.
InfFrag == <<"0", ".", "0", "0", "0", "3", ",", "i", "n", "f">>

\* What one fragment of a generated text was written from: a position (wf),
\* or one of the fragments above.
ItemSet ==
    { [wf |-> TRUE, lon |-> p[1], lat |-> p[2], frag |-> PairFrag(p[1], p[2]),
       fails |-> FALSE, lonEmpty |-> FALSE, latEmpty |-> FALSE] : p \in PointSet }
    \cup { [wf |-> FALSE, lon |-> IF b.frag = InfFrag THEN 3 ELSE 0,
            lat |-> IF b.frag = InfFrag THEN Inf ELSE 0, frag |-> b.frag,
            fails |-> b.fails, lonEmpty |-> b.lonEmpty,
            latEmpty |-> b.latEmpty] : b \in BadItems }

RECURSIVE SeqsUpTo(_, _)
SeqsUpTo(S, n) ==
    IF n = 0 THEN {<<>>}
    ELSE LET shorter == SeqsUpTo(S, n - 1) IN
         shorter \cup {Append(s, x) : s \in {t \in shorter : Len(t) = n - 1}, x \in S}

FragsOf(its) == [k \in 1..Len(its) |-> its[k].frag]

NotYet == [waypoints |-> <<>>, printed |-> 0, seen |-> 0, raised |-> "pending"]

NoGeo == [called |-> FALSE, idle |-> TRUE]

\* No driver runs during a parser run.
DriverIdle ==
    /\ driver = "none" /\ hasHead = FALSE /\ limit = 0 /\ sample = 1 /\ start = 0
    /\ pc = "done" /\ err = "" /\ labels = <<>> /\ count = 0 /\ consumed = <<>>
    /\ bound = FALSE /\ waypoints = <<>> /\ drivedist = 0 /\ tripdist = 0
    /\ triptime = 0 /\ excuses = <<0, 0, 0, 0, 0>> /\ rows = <<>> /\ diags = 0

InitParse ==
    /\ DriverIdle
    /\ result = NotYet
    /\ \/ /\ items \in SeqsUpTo(ItemSet, MaxFrags)
          /\ text = Encode(FragsOf(items))
          /\ geo = NoGeo
       \/ /\ items = <<>>
          /\ text = <<>>
          /\ geo = NoGeo
       \/ /\ items = <<>>
          /\ text = <<>>
          /\ \E p1 \in PointSet, p2 \in PointSet :
                geo = [called |-> FALSE, idle |-> FALSE, lon1 |-> p1[1],
                       lat1 |-> p1[2], lon2 |-> p2[1], lat2 |-> p2[2]]

\* A call parseWaypoints(text).
ParseCall ==
    /\ geo = NoGeo
    /\ result = NotYet
    /\ result' = parseWaypoints(text)
    /\ UNCHANGED <<text, items, geo, dvars>>

\* A call geodist(lon1, lat1, lon2, lat2) and geodir(lon1, lat1, lon2, lat2).
GeoCall ==
    /\ geo # NoGeo
    /\ ~geo.called
    /\ geo' = [called |-> TRUE, idle |-> FALSE,
               lon1 |-> geo.lon1, lat1 |-> geo.lat1,
               lon2 |-> geo.lon2, lat2 |-> geo.lat2,
               dist |-> geodist(geo.lon1, geo.lat1, geo.lon2, geo.lat2),
               dir |-> geodir(geo.lon1, geo.lat1, geo.lon2, geo.lat2)]
    /\ UNCHANGED <<text, items, result, dvars>>

NextParse == ParseCall \/ GeoCall

SpecParse == InitParse /\ [][NextParse]_vars

---------------------------------------------------------------------------
(* The drivers' shared pieces.                                             *)

Min2(a, b) == IF a <= b THEN a ELSE b

\* The header row of a trip file in the standard Porto format.
Header ==
    << "TRIP_ID", "CALL_TYPE", "ORIGIN_CALL", "ORIGIN_STAND", "TAXI_ID",
       "TIMESTAMP", "DAY_TYPE", "MISSING_DATA", "POLYLINE" >>

\* a & b on naturals.
RECURSIVE BitAnd(_, _)
BitAnd(a, b) ==
    IF a = 0 \/ b = 0 THEN 0
    ELSE (a % 2) * (b % 2) + 2 * BitAnd(a \div 2, b \div 2)

\* num & (num-1): num without its lowest set bit (0 & -1 is 0).
DropLowBit(num) == IF num = 0 THEN 0 ELSE BitAnd(num, num - 1)

\* isInteresting: true for 0, 1, 2, 3, 4, 6, 8, 12, 16, 24, 32, ...
isInteresting(num) ==
    \/ DropLowBit(num) = 0
    \/ /\ DropLowBit(DropLowBit(num)) = 0
       /\ BitAnd(num, num \div 2) # 0

\* zip(labels, line) with label == 'POLYLINE': the columns that hold a polyline.
PolyCols(lbls, line) ==
    {k \in 1..Min2(Len(lbls), Len(line)) : lbls[k] = "POLYLINE"}

HasPoly(lbls, line) == PolyCols(lbls, line) # {}

\* The atom of the POLYLINE column (header rows of the model have one).
PolyAtom(lbls, line) == line[CHOOSE k \in PolyCols(lbls, line) : TRUE]

\* sum( p[2] for p in waypoints )
RECURSIVE DriveDist(_)
DriveDist(wps) ==
    IF wps = <<>> THEN 0 ELSE wps[1][3] + DriveDist(Tail(wps))

\* geodist(waypoints[0], waypoints[-1]); IndexError on an empty list.
EndsDist(wps) ==
    geodist(wps[1][1], wps[1][2], wps[Len(wps)][1], wps[Len(wps)][2])

EndsRaise(wps) == CosRaises(wps[1][2], wps[Len(wps)][2])

\* tripdist as summarize and prepare compute it: 0 on an empty list.
TripDist(wps) == IF Len(wps) = 0 THEN 0 ELSE EndsDist(wps)

\* tripdist as illume computes it: whether waypoints[0] raises IndexError.
IllumeTripDistFails(wps) == Len(wps) = 0

\* A quarter of a minute per fix, not per segment.
TripTime_PerFix(wps) == 25 * Len(wps)

\* 0.25 * max(0, len(waypoints)-1), in hundredths of a minute.
TripTime(wps) == 25 * Max2(0, Len(wps) - 1)

\* dist/triptime*(60/1000) if triptime != 0 else 0, in tenths of a km/h.
Speed(dist, ttime) == IF ttime # 0 THEN (dist * 60) \div ttime ELSE 0

\* max( here[2] for here in waypoints ), on a non-empty list.
MaxSegment(wps) ==
    CHOOSE m \in {wps[k][3] : k \in 1..Len(wps)} :
        \A j \in 1..Len(wps) : wps[j][3] <= m

\* drivedist / triptime < 5, the operands in metres and minutes
\* (d / (t/100) < 5 is d*100 < 5*t is d < ceiling(5*t/100)).
TooSlow(ddist, ttime) == ddist < (5 * ttime + 99) \div 100

\* Whether the chain gets to evaluate drivedist / triptime (line 283): the
\* tests of lines 277 and 280 were both false.
DivisionEvaluated(tdist, ttime) == ~(ttime < 50) /\ ~(tdist < 30)

\* Whether the chain gets to evaluate max(...) over the segments (line 286):
\* the division was evaluated, without error, and its test was false.
MaxEvaluated(ddist, tdist, ttime) ==
    DivisionEvaluated(tdist, ttime) /\ ttime # 0 /\ ~TooSlow(ddist, ttime)

\* The exception the chain raises: ZeroDivisionError from a division by a
\* trip time of 0, ValueError from max() of an empty generator; "" if none.
OutlierRaises(wps, ddist, tdist, ttime) ==
    IF DivisionEvaluated(tdist, ttime) /\ ttime = 0 THEN "ZeroDivisionError"
    ELSE IF MaxEvaluated(ddist, tdist, ttime) /\ Len(wps) = 0
         THEN "ValueError: max() arg is an empty sequence"
         ELSE ""

\* The chain with the segment test moved to the front.
OutlierClass_FastFirst(wps, ddist, tdist, ttime) ==
    IF Len(wps) > 0 /\ MaxSegment(wps) > 625 THEN 4
    ELSE IF ttime < 50 THEN 1
    ELSE IF tdist < 30 THEN 2
    ELSE IF TooSlow(ddist, ttime) THEN 3
    ELSE 0

\* The if/elif chain of prepare: the index in excuses of the counter that is
\* incremented (0 accepted, 1 under 30 seconds, 2 under 30 metres, 3 too
\* slow, 4 too fast).
OutlierClass(wps, ddist, tdist, ttime) ==
    IF ttime < 50 THEN 1
    ELSE IF tdist < 30 THEN 2
    ELSE IF TooSlow(ddist, ttime) THEN 3
    ELSE IF MaxSegment(wps) > 625 THEN 4
    ELSE 0

\* line[0:7]
FirstSeven(line) == SubSeq(line, 1, Min2(7, Len(line)))

\* The missing-data expression evaluates line[7] when the waypoint list is
\* not empty and len(line) < 7 is false: IndexError on a line of 7 fields.
MissingRaises(wps, line) == Len(wps) # 0 /\ ~(Len(line) < 7) /\ Len(line) < 8

\* "True" if len(waypoints)==0 else
\* "True" if len(line)<7 or line[7][0:1]=='T' else "False"
MissingData(wps, line) ==
    IF Len(wps) = 0 THEN "True"
    ELSE IF Len(line) < 7 \/ SubSeq(line[8], 1, Min2(1, Len(line[8]))) = <<"T">>
         THEN "True"
         ELSE "False"

\* decodestamp(line[5]): IndexError on a line of fewer than 6 fields,
\* ValueError from int() on a stamp that is no run of digits.
StampError(line) ==
    IF Len(line) < 6 THEN "IndexError"
    ELSE IF line[6] = <<>> \/ \E k \in 1..Len(line[6]) : ~IsDigit(line[6][k])
         THEN "ValueError: invalid literal for int()"
         ELSE ""

\* The offsets start, 2, 5, 10 minutes and finish, as list indices.
Offsets == <<0, 2 * 4, 5 * 4, 10 * 4, -1>>

\* The test with its lower bound strict.
InBounds_Strict(wps, ix) == -Len(wps) < ix /\ ix < Len(wps)

\* -len(waypoints) <= ix < len(waypoints)
InBounds(wps, ix) == -Len(wps) <= ix /\ ix < Len(wps)

\* waypoints[ix], Python indexing: from the end when ix is negative.
At(wps, ix) == IF ix >= 0 THEN wps[ix + 1] ELSE wps[Len(wps) + ix + 1]

\* "{:.6f},{:.6f}".format(here[0], here[1]) as the pair of numbers written,
\* in millionths of a degree; "," (a blank pair) as <<>>.
SamplePair(wps, ix) ==
    IF InBounds(wps, ix)
    THEN <<At(wps, ix)[1] * 100, At(wps, ix)[2] * 100>>
    ELSE <<>>

\* The loop's last statement but one: whether the loop breaks at this count.
Breaks(cnt) ==
    CASE driver = "illume" -> limit # 0 /\ cnt >= start + limit
      [] driver = "summarize" -> cnt = limit
      [] OTHER -> cnt = limit * sample

---------------------------------------------------------------------------
(* Input files: the data lines the csv reader may deliver.                 *)

\* Most data lines of a file of several lines.
MaxLines == 4

\* Largest values of the parameters limit, sample and start that are tried.
MaxLimit == 2

MaxSample == 2

MaxStart == 1

\* Longest polyline tried.
MaxPoints == 42

\* A trace of n fixes going north from a point in Porto, dy ticks per fix
\* (one tick of latitude is 11.12 m; a fix is taken every 15 seconds).
Ramp(n, dy) == Encode([k \in 1..n |-> PairFrag(-86100, 411500 + (k - 1) * dy)])

\* A trace of n fixes: one fix, then n-1 fixes at a place 33 m north of it.
Stay(n) ==
    Encode([k \in 1..n |-> PairFrag(-86100, IF k = 1 THEN 411500 ELSE 411503)])

\* The first seven fields of a data line: TRIP_ID .. DAY_TYPE.
Fields7 ==
    << <<"7">>, <<"C">>, <<>>, <<>>, <<"2">>, <<"1", "3", "7", "2">>, <<"A">> >>

FlagFalse == <<"F", "a", "l", "s", "e">>

FlagTrue == <<"T", "r", "u", "e">>

FullLine(flag, poly) == Fields7 \o <<flag, poly>>

\* Lengths of the traces tried, round the offsets 8, 20 and 40.
RampLens == {0, 1, 2, 3, 4, 8, 9, 20, 21, 40, 41, MaxPoints}

\* Lines tried as the only data line of a file.
WidePool ==
    { FullLine(FlagFalse, Ramp(n, 1)) : n \in RampLens }
    \cup { FullLine(FlagFalse, Ramp(3, 2)), FullLine(FlagFalse, Ramp(2, 60)),
           FullLine(FlagFalse, Ramp(3, 60)), FullLine(FlagFalse, Stay(27)),
           FullLine(FlagFalse, Stay(28)), FullLine(FlagFalse, <<>>),
           FullLine(FlagTrue, Ramp(3, 2)),
           FullLine(FlagFalse, Encode(<< <<"x", ",", "4">>, PairFrag(3, 4) >>)),
           SubSeq(Fields7, 1, 5),
           <<Fields7[1], Fields7[2], Fields7[3], Fields7[4], Fields7[5], <<"x">>>> }

\* Lines tried in files of several lines: two full lines and two short ones
\* (without the POLYLINE field; without the MISSING_DATA field too).
SmallPool ==
    { FullLine(FlagFalse, Ramp(3, 2)), FullLine(FlagFalse, Ramp(5, 1)),
      Fields7 \o <<FlagFalse>>, Fields7 }

\* The lines that may follow the lines read so far.
NextLines(sofar) ==
    IF sofar = <<>> THEN WidePool \cup SmallPool
    ELSE IF Len(sofar) < MaxLines /\ \A k \in 1..Len(sofar) : sofar[k] \in SmallPool
         THEN SmallPool
         ELSE {}

---------------------------------------------------------------------------
(* The drivers.                                                            *)

ParserIdle == text = <<>> /\ items = <<>> /\ result = NotYet /\ geo = NoGeo

Init ==
    /\ ParserIdle
    /\ driver \in {"illume", "summarize", "prepare"}
    /\ hasHead \in BOOLEAN
    /\ limit \in 0..MaxLimit
    /\ \E s \in 0..MaxSample :
          sample = CASE driver = "prepare" -> Max2(1, s)
                     [] driver = "summarize" -> s
                     [] OTHER -> 1
    /\ \E s \in 0..MaxStart : start = IF driver = "illume" THEN s ELSE 0
    /\ pc = "loop" /\ err = "" /\ labels = <<>> /\ count = 0 /\ consumed = <<>>
    /\ bound = FALSE /\ waypoints = <<>> /\ drivedist = 0 /\ tripdist = 0
    /\ triptime = 0 /\ excuses = <<0, 0, 0, 0, 0>> /\ rows = <<>> /\ diags = 0

\* The locals and outputs as they are, no exception.
Keep ==
    [err |-> "", labels |-> labels, bound |-> bound, waypoints |-> waypoints,
     drivedist |-> drivedist, tripdist |-> tripdist, triptime |-> triptime,
     excuses |-> excuses, rows |-> rows, diags |-> diags]

\* One data line has been handled with outcome o: the assignments, then
\* count += 1 and the break test (an exception leaves the function).
Handled(line, o) ==
    /\ consumed' = Append(consumed, line)
    /\ err' = o.err
    /\ labels' = o.labels
    /\ bound' = o.bound
    /\ waypoints' = o.waypoints
    /\ drivedist' = o.drivedist
    /\ tripdist' = o.tripdist
    /\ triptime' = o.triptime
    /\ excuses' = o.excuses
    /\ rows' = o.rows
    /\ diags' = o.diags
    /\ count' = IF o.err # "" THEN count ELSE count + 1
    /\ pc' = IF o.err # "" THEN "raised"
             ELSE IF Breaks(count + 1) THEN "done" ELSE "loop"
    /\ UNCHANGED <<pvars, params>>

\* Whether the next line is a data line (not taken as the header row).
DataLineNext == pc = "loop" /\ ~(Len(labels) = 0 /\ hasHead)

\* The first line of a file with a header row.  In summarize count += 1 is a
\* statement of the loop body, so the header row is counted; in illume and
\* prepare it belongs to the else branch.  The break test follows in all.
ReadHeader ==
    /\ pc = "loop"
    /\ Len(labels) = 0 /\ hasHead
    /\ labels' = Header
    /\ count' = IF driver = "summarize" THEN count + 1 ELSE count
    /\ pc' = IF Breaks(count') THEN "done" ELSE "loop"
    /\ UNCHANGED <<pvars, params, err, consumed, locals, excuses, rows, diags>>

\* The file has no more lines: the loop ends and the function returns count.
EndOfFile ==
    /\ pc = "loop"
    /\ pc' = "done"
    /\ UNCHANGED <<pvars, params, err, labels, count, consumed, locals, excuses,
                   rows, diags>>

\* What the POLYLINE branch of the zip loop gets from parseWaypoints (a line
\* without that column is not parsed).
PolyParse(lbls, line) ==
    IF HasPoly(lbls, line) THEN parseWaypoints(PolyAtom(lbls, line))
    ELSE [waypoints |-> <<>>, printed |-> 0, seen |-> 0, raised |-> ""]

\* The outcome with one more output row.
WithRow(o, row) ==
    [o EXCEPT !.rows = Append(@, [src |-> Len(consumed) + 1, row |-> row])]

\* The outcome with the locals waypoints, drivedist, tripdist, triptime bound.
WithLocals(o, wps, dd, td, tt) ==
    [o EXCEPT !.bound = TRUE, !.waypoints = wps, !.drivedist = dd,
              !.tripdist = td, !.triptime = tt]

\* illume: whether entry count is displayed.
Shown(cnt) ==
    \/ limit # 0 /\ cnt >= start /\ cnt < start + limit
    \/ limit = 0 /\ isInteresting(cnt)

\* while len(labels) < len(line): labels.append( str(len(labels)+1) )
ExtendLabels(lbls, n) ==
    [k \in 1..Max2(Len(lbls), n) |-> IF k <= Len(lbls) THEN lbls[k] ELSE ToString(k)]

\* illume, the five values printed after the waypoints.
IllumePrinted(o, wps, dd, td, tt) ==
    WithRow(WithLocals(o, wps, dd, td, tt),
            [drive |-> dd, trip |-> td, time |-> tt,
             avg |-> Speed(dd, tt), tripspeed |-> Speed(td, tt)])

\* illume, the POLYLINE branch after parseWaypoints returned wps.
IllumeAggregate(o, wps) ==
    IF IllumeTripDistFails(wps)
    THEN [WithLocals(o, wps, DriveDist(wps), tripdist, triptime)
            EXCEPT !.err = "IndexError"]
    ELSE IF EndsRaise(wps)
    THEN [WithLocals(o, wps, DriveDist(wps), tripdist, triptime)
            EXCEPT !.err = "ValueError: math domain error"]
    ELSE IllumePrinted(o, wps, DriveDist(wps), EndsDist(wps), TripTime(wps))

\* illume, a displayed line: lbls the labels, p parseWaypoints' result.
IllumeShown(lbls, line, p) ==
    IF ~HasPoly(lbls, line) THEN [Keep EXCEPT !.labels = lbls]
    ELSE IF p.raised # ""
    THEN [Keep EXCEPT !.labels = lbls, !.diags = @ + p.printed, !.err = p.raised]
    ELSE IllumeAggregate([Keep EXCEPT !.labels = lbls, !.diags = @ + p.printed],
                         p.waypoints)

\* illume, one data line.
IllumeStep(line) ==
    IF ~Shown(count) THEN Keep
    ELSE IllumeShown(ExtendLabels(labels, Len(line)), line,
                     PolyParse(ExtendLabels(labels, Len(line)), line))

\* summarize, the output row, from the locals as they are after the zip loop.
SummarizeRow(o, line, wps, dd, td) ==
    IF MissingRaises(wps, line)
    THEN [WithLocals(o, wps, dd, td, triptime) EXCEPT !.err = "IndexError"]
    ELSE WithRow(WithLocals(o, wps, dd, td, triptime),
                 [head |-> FirstSeven(line), missing |-> MissingData(wps, line),
                  drive |-> dd, trip |-> td, time |-> TripTime(wps)])

\* summarize, a sampled line.  The locals waypoints, drivedist and tripdist are
\* assigned only in the POLYLINE branch; reading waypoints before any
\* assignment raises UnboundLocalError.
SummarizeSampled(o, line, hp, p) ==
    IF p.raised # "" THEN [o EXCEPT !.err = p.raised]
    ELSE IF hp /\ Len(p.waypoints) # 0 /\ EndsRaise(p.waypoints)
    THEN [o EXCEPT !.err = "ValueError: math domain error"]
    ELSE IF hp
    THEN SummarizeRow(o, line, p.waypoints, DriveDist(p.waypoints),
                      TripDist(p.waypoints))
    ELSE IF ~bound THEN [o EXCEPT !.err = "UnboundLocalError"]
    ELSE SummarizeRow(o, line, waypoints, drivedist, tripdist)

SummarizeParsed(line, p) ==
    SummarizeSampled([Keep EXCEPT !.diags = @ + p.printed], line,
                     HasPoly(labels, line), p)

\* summarize, one data line.
SummarizeStep(line) ==
    IF sample = 0 THEN [Keep EXCEPT !.err = "ZeroDivisionError"]
    ELSE IF count % sample # 0 THEN Keep
    ELSE SummarizeParsed(line, PolyParse(labels, line))

\* prepare, the output row.
PrepareRow(o, line, wps, dd, td, tt) ==
    IF StampError(line) # "" THEN [o EXCEPT !.err = StampError(line)]
    ELSE IF MissingRaises(wps, line) THEN [o EXCEPT !.err = "IndexError"]
    ELSE WithRow(o, [head |-> FirstSeven(line), cal |-> line[6],
                     missing |-> MissingData(wps, line),
                     drive |-> dd, trip |-> td, time |-> tt,
                     at |-> [k \in 1..5 |-> SamplePair(wps, Offsets[k])]])

\* prepare, the outlier check: the counter excuses[cls] is incremented, then
\* the row is built.
PrepareCounted(o, line, wps, dd, td, tt, cls) ==
    PrepareRow([WithLocals(o, wps, dd, td, tt)
                  EXCEPT !.excuses = [@ EXCEPT ![cls + 1] = @ + 1]],
               line, wps, dd, td, tt)

\* prepare, the row once the locals are assigned: the outlier check may raise
\* before any counter is touched.
PrepareAggregated(o, line, wps, dd, td, tt) ==
    IF OutlierRaises(wps, dd, td, tt) # ""
    THEN [WithLocals(o, wps, dd, td, tt)
            EXCEPT !.err = OutlierRaises(wps, dd, td, tt)]
    ELSE PrepareCounted(o, line, wps, dd, td, tt, OutlierClass(wps, dd, td, tt))

\* prepare, a sampled line: the locals start at [], 0, 0, 0 and are assigned
\* in the POLYLINE branch.
PrepareSampled(o, line, hp, p) ==
    IF p.raised # "" THEN [WithLocals(o, <<>>, 0, 0, 0) EXCEPT !.err = p.raised]
    ELSE IF hp /\ Len(p.waypoints) # 0 /\ EndsRaise(p.waypoints)
    THEN [WithLocals(o, p.waypoints, DriveDist(p.waypoints), 0, 0)
            EXCEPT !.err = "ValueError: math domain error"]
    ELSE IF hp
    THEN PrepareAggregated(o, line, p.waypoints, DriveDist(p.waypoints),
                           TripDist(p.waypoints), TripTime(p.waypoints))
    ELSE PrepareAggregated(o, line, <<>>, 0, 0, 0)

PrepareParsed(line, p) ==
    PrepareSampled([Keep EXCEPT !.diags = @ + p.printed], line,
                   HasPoly(labels, line), p)

\* prepare, one data line.
PrepareStep(line) ==
    IF count % sample # 0 THEN Keep
    ELSE PrepareParsed(line, PolyParse(labels, line))

IllumeLine ==
    /\ driver = "illume"
    /\ DataLineNext
    /\ \E line \in NextLines(consumed) : Handled(line, IllumeStep(line))

SummarizeLine ==
    /\ driver = "summarize"
    /\ DataLineNext
    /\ \E line \in NextLines(consumed) : Handled(line, SummarizeStep(line))

PrepareLine ==
    /\ driver = "prepare"
    /\ DataLineNext
    /\ \E line \in NextLines(consumed) : Handled(line, PrepareStep(line))

Next == ReadHeader \/ IllumeLine \/ SummarizeLine \/ PrepareLine \/ EndOfFile

Spec == Init /\ [][Next]_vars


---------------------------------------------------------------------------
(* Properties of prepare, summarize and illume (specification Spec).       *)

\* A step of prepare that processes a trip: a data line is read, the line is
\* sampled, and its polyline did not fail in the parser or in geodist.
C1_Processed ==
    /\ driver = "prepare"
    /\ pc = "loop"
    /\ Len(consumed') = Len(consumed) + 1
    /\ count % sample = 0
    /\ err' # "ValueError: math domain error"

\* The first rule that the trip's values match, in the documented order
\* (1: under half a minute, 2: under 30 m, 3: too slow, 4: a segment over
\* 625 m, 0: none).
C1_FirstMatch ==
    IF triptime' < 50 THEN 1
    ELSE IF tripdist' < 30 THEN 2
    ELSE IF drivedist' * 100 < 5 * triptime' THEN 3
    ELSE IF \E k \in 1..Len(waypoints') : waypoints'[k][3] > 625 THEN 4
    ELSE 0

\* C1: in prepare every processed trip increments exactly one of the five
\* counters, the one of the first rule matched in the order trip time under
\* 0.5 min, trip distance under 30 m, too slow, some segment over 625 m, else
\* accepted; a trip both too short in time and too fast counts as too short
\* in time.
C1_OneClassFirstMatch ==
    [][C1_Processed =>
            excuses' = [excuses EXCEPT ![C1_FirstMatch + 1] = @ + 1]]_vars

\* C1, its case: a trip of two fixes more than 625 m apart has been counted
\* as too short in time.
C1_ShortTimeBeatsFast ==
    /\ driver = "prepare"
    /\ Len(consumed) = 1
    /\ Len(waypoints) = 2
    /\ triptime < 50
    /\ waypoints[2][3] > 625
    /\ excuses = <<0, 1, 0, 0, 0>>

\* The first trip of a prepare run has been classified and passed the rules
\* on trip time and trip distance.
C2_FirstTripPastRules ==
    /\ driver = "prepare"
    /\ Len(consumed) = 1
    /\ excuses[1] + excuses[2] + excuses[3] + excuses[4] + excuses[5] = 1
    /\ triptime >= 50
    /\ tripdist >= 30

\* C2: in prepare a trip that passes the rules on trip time and trip distance
\* is classified too slow exactly when its average speed, drive distance over
\* trip time scaled by 60/1000, is below 5 km/h (d/(t/100)*60/1000 < 5 is
\* 6*d < 5*t with t in hundredths of a minute).
C2_SlowIffBelow5Kmh ==
    C2_FirstTripPastRules => (excuses[4] = 1 <=> drivedist * 6 < 5 * triptime)

\* The first data line of a file with the header row holds a polyline that
\* parses to the empty list ("[]" or the empty text), and the driver
\* aggregates it (in summarize the line has count 1, and is taken when
\* 1 % sample is 0).
C3_EmptyTripRead ==
    /\ hasHead
    /\ Len(consumed) = 1
    /\ Len(consumed[1]) = 9
    /\ consumed[1][9] \in {<<>>, <<"[", "]">>}
    /\ driver = "summarize" => sample # 0 /\ 1 % sample = 0

\* The values of a row are the defaults of an empty trip.
C3_ZeroRow(r) ==
    /\ r.drive = 0 /\ r.trip = 0 /\ r.time = 0
    /\ driver = "illume" => r.avg = 0 /\ r.tripspeed = 0

\* C3: for a trip whose polyline parses to the empty list every driver that
\* aggregates it computes drive distance 0, trip distance 0, trip time 0 and
\* speeds 0 (prepare counts it as too short in time) and completes the record
\* without raising.
C3_EmptyTripCompletes ==
    C3_EmptyTripRead =>
        /\ err = ""
        /\ \A k \in 1..Len(rows) : C3_ZeroRow(rows[k].row)
        /\ driver \in {"summarize", "prepare"} => Len(rows) = 1
        /\ driver = "prepare" => excuses = <<0, 1, 0, 0, 0>>

\* The pair a row of prepare must hold for the list index ix.
C9_Expected(ix) ==
    IF ix >= 0
    THEN IF ix < Len(waypoints)
         THEN <<waypoints[ix + 1][1] * 100, waypoints[ix + 1][2] * 100>>
         ELSE <<>>
    ELSE IF Len(waypoints) >= 1
         THEN <<waypoints[Len(waypoints)][1] * 100,
                waypoints[Len(waypoints)][2] * 100>>
         ELSE <<>>

\* The last row written by prepare is the row of the line read last, so the
\* local waypoints is the list that row was written from.
C9_RowOfLastLine ==
    /\ driver = "prepare"
    /\ rows # <<>>
    /\ rows[Len(rows)].src = Len(consumed)

\* C9: in prepare, for a waypoint list of any length N and each of the
\* offsets start, 2 min, 5 min, 10 min and finish (indices 0, 8, 20, 40, -1)
\* the row holds the position of the waypoint at that index when the index is
\* within bounds and a blank pair otherwise; so for N = 0 all five are blank,
\* for N >= 1 start and finish are present, for N = 41 the 10-minute pair is
\* the finish pair.
C9_OffsetsInBounds ==
    C9_RowOfLastLine =>
        /\ rows[Len(rows)].row.at[1] = C9_Expected(0)
        /\ rows[Len(rows)].row.at[2] = C9_Expected(8)
        /\ rows[Len(rows)].row.at[3] = C9_Expected(20)
        /\ rows[Len(rows)].row.at[4] = C9_Expected(40)
        /\ rows[Len(rows)].row.at[5] = C9_Expected(-1)

\* C9, its case: a row written from 41 waypoints, whose 10-minute pair is its
\* finish pair and differs from its start pair.
C9_FortyOneFixes ==
    /\ C9_RowOfLastLine
    /\ Len(waypoints) = 41
    /\ rows[Len(rows)].row.at[4] # <<>>
    /\ rows[Len(rows)].row.at[4] = rows[Len(rows)].row.at[5]
    /\ rows[Len(rows)].row.at[4] # rows[Len(rows)].row.at[1]
    /\ rows[Len(rows)].row.at[3] # <<>>

\* C10: in summarize and in prepare the values written for a record are
\* determined by that record's own fields alone: two rows written for
\* identical records are identical, whatever records precede them.
C10_RowFromOwnRecord ==
    driver \in {"summarize", "prepare"} =>
        \A i \in 1..Len(rows) : \A j \in 1..Len(rows) :
            consumed[rows[i].src] = consumed[rows[j].src]
                => rows[i].row = rows[j].row

\* A step of summarize or prepare that processes a record up to its
\* missing-data field: a data line is read, the line is sampled, its polyline
\* did not fail in the parser or in geodist, summarize has a waypoint list to
\* look at, and prepare could decode the line's time stamp.
C11_Reached ==
    /\ driver \in {"summarize", "prepare"}
    /\ pc = "loop"
    /\ Len(consumed') = Len(consumed) + 1
    /\ sample # 0
    /\ count % sample = 0
    /\ err' \notin {"ValueError: math domain error", "UnboundLocalError",
                    "ValueError: invalid literal for int()"}
    /\ driver = "prepare" => Len(consumed'[Len(consumed')]) >= 6

\* The missing-data value a record must get: line its fields, wps the
\* waypoint list the driver holds for it.
C11_Expected(line, wps) ==
    IF wps = <<>> THEN "True"
    ELSE IF Len(line) < 8 THEN "True"
    ELSE IF line[8] # <<>> /\ line[8][1] = "T" THEN "True"
    ELSE "False"

\* C11: for every record processed by summarize or prepare, whatever its
\* number of fields, the missing-data field is computed without failure, and
\* it is True if the waypoint list is empty or the 8th field is absent or
\* begins with T, and False otherwise.
C11_MissingDataComputed ==
    [][C11_Reached =>
            /\ err' = ""
            /\ Len(rows') = Len(rows) + 1
            /\ rows'[Len(rows')].row.missing =
                  C11_Expected(consumed'[Len(consumed')], waypoints')]_vars

\* C12: in prepare's outlier classification the division drive distance by
\* trip time and the max() over the segment distances are evaluated only
\* when the rule on the trip time is false, which is exactly when the list
\* has at least 3 waypoints; so for lists of 0, 1 or 2 waypoints no division
\* by zero and no max() of an empty collection is attempted.
C12_DivisionAndMaxGuarded ==
    driver = "prepare" =>
        /\ triptime >= 50 <=> Len(waypoints) >= 3
        /\ DivisionEvaluated(tripdist, triptime) => Len(waypoints) >= 3
        /\ MaxEvaluated(drivedist, tripdist, triptime) => Len(waypoints) >= 3
        /\ err \notin {"ZeroDivisionError",
                       "ValueError: max() arg is an empty sequence"}

\* C12, its case: prepare has classified a trip of exactly 3 waypoints, for
\* which both the division and the max() were evaluated.
C12_ThreeFixesEvaluated ==
    /\ driver = "prepare"
    /\ Len(consumed) = 1
    /\ Len(waypoints) = 3
    /\ DivisionEvaluated(tripdist, triptime)
    /\ MaxEvaluated(drivedist, tripdist, triptime)
    /\ excuses[1] + excuses[5] = 1

\* The records read so far whose 0-based index is a multiple of sample.
C13_Sampled(n) == {k \in 0..(n - 1) : k % sample = 0}

\* C13: prepare with limit = 0 on a file with a header row applies no limit:
\* only the end of the file ends its loop, and it writes one row for every
\* record whose 0-based index is a multiple of sample; with limit = L > 0 it
\* writes at most L rows.
C13_LimitZeroIsNoLimit ==
    [][driver = "prepare" /\ hasHead =>
            /\ limit = 0 /\ pc = "loop" /\ pc' = "done"
                  => labels' = labels /\ consumed' = consumed
            /\ limit = 0 /\ err' = ""
                  => Len(rows') = Cardinality(C13_Sampled(Len(consumed')))
            /\ limit > 0 => Len(rows') <= limit]_vars

---------------------------------------------------------------------------
(* Properties of parseWaypoints, geodist and geodir (specification         *)
(* SpecParse).                                                             *)

\* The call parseWaypoints(text) has been made.
Parsed == result.raised # "pending"

\* The position of the k-th waypoint returned.
PosOf(k) == <<result.waypoints[k][1], result.waypoints[k][2]>>

\* The text was written from one or more pairs of finite numbers.
C4_WellFormed == items # <<>> /\ \A k \in 1..Len(items) : items[k].wf

\* C4: parseWaypoints returns the empty list for the texts "[]" and "", and
\* for a well-formed text of N >= 1 numeric pairs it returns N waypoints, in
\* input order, the i-th with the i-th position.
C4_ParsesWellFormed ==
    Parsed =>
        /\ text \in {<<>>, <<"[", "]">>}
              => result.raised = "" /\ result.waypoints = <<>>
        /\ C4_WellFormed
              => /\ result.raised = ""
                 /\ Len(result.waypoints) = Len(items)
                 /\ \A k \in 1..Len(items) :
                        PosOf(k) = <<items[k].lon, items[k].lat>>

\* C4, its case: a text of three pairs has been parsed into three waypoints
\* that are not in sorted order.
C4_ThreeInOrder ==
    /\ Parsed
    /\ Len(items) = 3
    /\ C4_WellFormed
    /\ Len(result.waypoints) = 3
    /\ PosOf(1) = <<3, 4>>
    /\ PosOf(2) = <<-86100, 411500>>
    /\ PosOf(3) = <<0, 4>>

\* Fragment k fails to parse with both of its substrings non-empty.
C5_FailsBothPresent(k) ==
    items[k].fails /\ ~items[k].lonEmpty /\ ~items[k].latEmpty

\* Fragment k fails to parse with at least one of its substrings non-empty.
C5_FailsSomePresent(k) ==
    items[k].fails /\ ~(items[k].lonEmpty /\ items[k].latEmpty)

\* Each waypoint returned for a fragment that failed to parse is at (0, 0).
C5_FailedAreZero ==
    \A k \in 1..Len(result.waypoints) :
        k <= Len(items) /\ items[k].fails => PosOf(k) = <<0, 0>>

\* C5 as stated: a call prints exactly one diagnostic if a fragment it takes
\* up fails to parse while both its longitude and its latitude substring are
\* non-empty, and none otherwise.
C5_DiagnosticIffBothPresent ==
    Parsed =>
        result.printed =
            IF \E k \in 1..result.seen : C5_FailsBothPresent(k) THEN 1 ELSE 0

\* C5, amended: a call prints exactly one diagnostic if a fragment it takes
\* up fails to parse while its longitude or its latitude substring is
\* non-empty, and none otherwise (a failed fragment is silent only when both
\* substrings are empty); every failed fragment gives the position (0, 0),
\* and several failed fragments still give one diagnostic.
C5_DiagnosticIffSomePresent ==
    Parsed =>
        /\ result.printed =
              IF \E k \in 1..result.seen : C5_FailsSomePresent(k) THEN 1 ELSE 0
        /\ C5_FailedAreZero

\* C5, its case: two fragments failed, one with an empty latitude and one
\* with an empty longitude, and the call printed one diagnostic.
C5_HalfEmptyPrintsOnce ==
    /\ Parsed
    /\ result.raised = ""
    /\ Len(items) = 2
    /\ result.seen = 2
    /\ items[1].fails /\ ~items[1].lonEmpty /\ items[1].latEmpty
    /\ items[2].fails /\ items[2].lonEmpty /\ ~items[2].latEmpty
    /\ result.printed = 1
    /\ PosOf(1) = <<0, 0>>
    /\ PosOf(2) = <<0, 0>>

\* The number of fragments of the text (the text of one empty fragment has
\* none).
C6_Fragments ==
    IF Len(items) = 1 /\ items[1].frag = <<>> THEN 0 ELSE Len(items)

\* C6: for every text parseWaypoints returns normally, with one waypoint per
\* fragment: (0, 0) for a fragment that cannot be parsed, and its own
\* coordinates for every other fragment, also after a malformed one.
C6_ReturnsNormally ==
    Parsed =>
        /\ result.raised = ""
        /\ Len(result.waypoints) = C6_Fragments
        /\ \A k \in 1..Len(result.waypoints) :
              PosOf(k) = IF items[k].fails THEN <<0, 0>>
                         ELSE <<items[k].lon, items[k].lat>>

\* The text holds two pairs of finite numbers, the first with both
\* coordinates other than 0, and the call returned.
C7_TwoKnown ==
    /\ Parsed
    /\ result.raised = ""
    /\ Len(items) = 2
    /\ C4_WellFormed
    /\ items[1].lon # 0 /\ items[1].lat # 0
    /\ Len(result.waypoints) = 2

\* The heading of a move by (dlon, dlat) along one axis, as documented.
C7_Documented(dlon, dlat, dir) ==
    /\ dlat = 0 /\ dlon > 0 => dir \in {180, -180}
    /\ dlat = 0 /\ dlon < 0 => dir = 0
    /\ dlon = 0 /\ dlat > 0 => dir = 90
    /\ dlon = 0 /\ dlat < 0 => dir = -90

\* C7: geodir(p1, p2) is 180 or -180 for p1 due east of p2 and 90 for p1 due
\* north of p2; so the heading parseWaypoints stores for a waypoint reached
\* due east of the preceding one is 180 or -180, due north 90, due west 0,
\* due south -90.
C7_EastIs180 ==
    /\ geo.called =>
          /\ geo.lat1 = geo.lat2 /\ geo.lon1 > geo.lon2 => geo.dir \in {180, -180}
          /\ geo.lon1 = geo.lon2 /\ geo.lat1 > geo.lat2 => geo.dir = 90
    /\ C7_TwoKnown =>
          C7_Documented(items[2].lon - items[1].lon, items[2].lat - items[1].lat,
                        result.waypoints[2][4])

\* C8: for a text of exactly two waypoints with distinct positions, neither
\* of them (0, 0), the second waypoint's segment distance is above 0 (the
\* first waypoint has segment distance 0 and heading 0).
C8_SecondSegmentPositive ==
    (/\ Parsed
     /\ Len(items) = 2
     /\ C4_WellFormed
     /\ <<items[1].lon, items[1].lat>> # <<items[2].lon, items[2].lat>>
     /\ <<items[1].lon, items[1].lat>> # <<0, 0>>
     /\ <<items[2].lon, items[2].lat>> # <<0, 0>>)
        => /\ result.raised = ""
           /\ Len(result.waypoints) = 2
           /\ result.waypoints[1][3] = 0
           /\ result.waypoints[1][4] = 0
           /\ result.waypoints[2][3] > 0

====
